---- MODULE Spec2Model ----
(***************************************************************************)
(* Request resilience and cost accounting of the photography coach:        *)
(* services/geminiService.ts (isPermissionError, withRetry, analyzeImage), *)
(* the session ledger of App.tsx and the scale projection of               *)
(* components/AnalysisResults.tsx.                                         *)
(*                                                                         *)
(* Money is counted in integer price units of 1/160000000 dollar, the      *)
(* largest unit in which every rate of PRICING is a whole number.          *)
(* An error message is the set of the fragments it contains; scanning a    *)
(* message for a substring is membership of the fragment.                  *)
(* An error without a message has the empty set: the text toString() then  *)
(* yields holds none of the fragments looked for.                          *)
(* An absent optional value (undefined) is the empty sequence, a present   *)
(* one the one-element sequence; an absent number is NoValue.              *)
(***************************************************************************)
EXTENDS Integers, Sequences, FiniteSets, TLC

\* One call of withRetry / analyzeImage (services/geminiService.ts).
VARIABLES pc, caller, maxRetries, initialDelay, retries, delay, attempts,
          waits, history, rejected, resolved, thrown, returned, result

\* The App component (App.tsx): its React state, the analyzeImage calls in
\* flight, the number of calls issued, and what the last render computed.
VARIABLES appState, currentImage, analysis, error, activeResultTab,
          mentorChatState, sessionHistory, requests, issued, rendered

\* The askPhotographyMentor calls in flight and the number of calls issued.
VARIABLES mentorRequests, asked

serviceVars == <<pc, caller, maxRetries, initialDelay, retries, delay,
                 attempts, waits, history, rejected, resolved, thrown,
                 returned, result>>

mentorCalls == <<mentorRequests, asked>>

appVars == <<appState, currentImage, analysis, error, activeResultTab,
             mentorChatState, sessionHistory, requests, issued, rendered,
             mentorCalls>>

vars == <<serviceVars, appVars>>

(* ------------------------------ bounds --------------------------------- *)
MaxRetriesBound == 3
MaxFragments == 2
MaxRequests == 3
MaxLedger == 3
MaxQuestions == 6

(* ----------------------------- constants ------------------------------- *)
UnitsPerDollar == 160000000
PromptLength == 1559
DefaultRetries == 2
DefaultDelay == 1000
NoValue == -1
ScaleRequests == 1000
\* Projected amounts are held in units of ProjectionUnit price units
\* (1/160000 dollar), so that the amounts of 1000 requests stay in range.
ProjectionUnit == 1000
TurnLimit == 5

PRICING ==
  [flash |-> [input |-> 12, output |-> 48, cachedInput |-> 3],
   pro   |-> [input |-> 560, output |-> 1680, cachedInput |-> 140]]

\* { messages: [], isLoading: false }: the mentor chat with nothing in it.
NoChat == [messages |-> <<>>, isLoading |-> FALSE, error |-> <<>>]

(* ------------------------------ helpers -------------------------------- *)
Max(a, b) == IF a >= b THEN a ELSE b

RECURSIVE Pow2(_)
Pow2(n) == IF n <= 0 THEN 1 ELSE 2 * Pow2(n - 1)

RECURSIVE SumSeq(_)
SumSeq(s) == IF s = <<>> THEN 0 ELSE Head(s) + SumSeq(Tail(s))

OrZero(x) == IF x = NoValue THEN 0 ELSE x

(* ------------------------------ errors --------------------------------- *)
Fragments ==
  {"Permission Denied", "403", "404", "not found", "billing",
   "500", "Internal Error", "503", "quota"}

Messages == {m \in SUBSET Fragments : Cardinality(m) <= MaxFragments}

Statuses == {0, 403, 404, 429, 500, 503}

Codes == {0, 500}

Errors == [status : Statuses, code : Codes, message : Messages]

toLowerCase(m) ==
  {CASE f = "Permission Denied" -> "permission denied"
     [] f = "Internal Error" -> "internal error"
     [] OTHER -> f : f \in m}

includes(m, needle) == needle \in m

\* Variant of isPermissionError: the billing test is missing.
isPermissionErrorWithoutBilling(err) ==
  LET msg == toLowerCase(err.message) IN
    \/ includes(msg, "permission denied")
    \/ includes(msg, "403")
    \/ includes(msg, "404")
    \/ includes(msg, "not found")
    \/ err.status = 403
    \/ err.status = 404

isPermissionError(err) ==
  LET msg == toLowerCase(err.message) IN
    \/ includes(msg, "permission denied")
    \/ includes(msg, "403")
    \/ includes(msg, "404")
    \/ includes(msg, "not found")
    \/ includes(msg, "billing")
    \/ err.status = 403
    \/ err.status = 404

\* Variant of isServerFault: status 503 is not recognized.
isServerFaultWithout503(err) ==
  \/ err.status = 500
  \/ includes(err.message, "500")
  \/ err.code = 500

isServerFault(err) ==
  \/ err.status = 500
  \/ err.status = 503
  \/ includes(err.message, "500")
  \/ err.code = 500

\* Variants of shouldRetry: an off-by-one that still retries with no budget
\* left, one that gives up one retry early, one that retries any failure.
shouldRetryWithoutBudget(err, r) == r >= 0 /\ isServerFault(err)

shouldRetryStopsEarly(err, r) == r > 1 /\ isServerFault(err)

shouldRetryAnyError(err, r) == r > 0

shouldRetry(err, r) == r > 0 /\ isServerFault(err)

\* Variant of nextDelay: the delay is tripled.
nextDelayTripled(d) == d * 3

nextDelay(d) == d * 2

classify(err) ==
  IF isPermissionError(err) THEN "FATAL"
  ELSE IF isServerFault(err) THEN "TRANSIENT"
  ELSE "FATAL"

(* ----------------------------- responses ------------------------------- *)
approximateStaticTokens == PromptLength \div 4

PromptCounts == {NoValue, 0, 1, approximateStaticTokens - 1,
                 approximateStaticTokens, approximateStaticTokens + 1, 3000}

CachedCounts == {NoValue, 0, 1, approximateStaticTokens, 2500, 3001}

OutputCounts == {NoValue, 0, 500}

UsageMetadatas ==
  [promptTokenCount : PromptCounts, candidatesTokenCount : OutputCounts,
   totalTokenCount : {NoValue, 0, 3500}, cachedContentTokenCount : CachedCounts]

Responses ==
  [text : {"json"}, usageMetadata : {<<>>} \cup {<<u>> : u \in UsageMetadatas}]
  \cup [text : {"", "not json"}, usageMetadata : {<<>>}]

(* ------------------------- economics calculation ----------------------- *)
\* Variant of realNewTokensOf: the cached tokens are not subtracted.
realNewTokensIgnoringCache(rawPromptTokens, realCachedTokens) ==
  rawPromptTokens

realNewTokensOf(rawPromptTokens, realCachedTokens) ==
  Max(0, rawPromptTokens - realCachedTokens)

\* Variant of costOf: the cached and the fresh input rate are swapped.
costOfSwappedRates(pricing, cachedTokens, newTokens, outputTokens) ==
  (cachedTokens * pricing.input)
  + (newTokens * pricing.cachedInput)
  + (outputTokens * pricing.output)

costOf(pricing, cachedTokens, newTokens, outputTokens) ==
  (cachedTokens * pricing.cachedInput)
  + (newTokens * pricing.input)
  + (outputTokens * pricing.output)

projectedCachedTokensOf(rawPromptTokens) == approximateStaticTokens

\* Variant of projectedNewTokensOf: the difference is not clamped at zero.
projectedNewTokensUnclamped(rawPromptTokens, projectedCachedTokens) ==
  rawPromptTokens - projectedCachedTokens

projectedNewTokensOf(rawPromptTokens, projectedCachedTokens) ==
  Max(0, rawPromptTokens - projectedCachedTokens)

\* Variant of projectedSavingsOf: the two costs are subtracted the wrong way.
projectedSavingsReversed(realCost, projectedCostWithCache) ==
  Max(0, projectedCostWithCache - realCost)

\* Variant of projectedSavingsOf: the difference is not clamped at zero.
projectedSavingsUnclamped(realCost, projectedCostWithCache) ==
  realCost - projectedCostWithCache

projectedSavingsOf(realCost, projectedCostWithCache) ==
  Max(0, realCost - projectedCostWithCache)

computeTokenUsage(usageMetadata) ==
  LET pricing == PRICING.pro
      rawPromptTokens == OrZero(usageMetadata.promptTokenCount)
      outputTokens == OrZero(usageMetadata.candidatesTokenCount)
      totalTokens == OrZero(usageMetadata.totalTokenCount)
      realCachedTokens == OrZero(usageMetadata.cachedContentTokenCount)
      realNewTokens == realNewTokensOf(rawPromptTokens, realCachedTokens)
      realCost == costOf(pricing, realCachedTokens, realNewTokens, outputTokens)
      projectedCachedTokens == projectedCachedTokensOf(rawPromptTokens)
      projectedNewTokens ==
        projectedNewTokensOf(rawPromptTokens, projectedCachedTokens)
      projectedCostWithCache ==
        costOf(pricing, projectedCachedTokens, projectedNewTokens, outputTokens)
      projectedSavings == projectedSavingsOf(realCost, projectedCostWithCache)
  IN [realCachedTokens |-> realCachedTokens,
      realNewTokens |-> realNewTokens,
      totalTokens |-> totalTokens,
      realCost |-> realCost,
      projectedCachedTokens |-> projectedCachedTokens,
      projectedCostWithCache |-> projectedCostWithCache,
      projectedSavings |-> projectedSavings]


(* --------------------------- exact arithmetic --------------------------- *)
\* The quotients of the scale projection are kept as reduced fractions.
Abs(n) == IF n < 0 THEN -n ELSE n

RECURSIVE Gcd(_, _)
Gcd(a, b) == IF b = 0 THEN a ELSE Gcd(b, a % b)

Rat(n, d) ==
  LET g == Gcd(Abs(n), d) IN [num |-> n \div g, den |-> d \div g]

FromInt(n) == [num |-> n, den |-> 1]

Zero == FromInt(0)

RatMul(a, b) ==
  LET g1 == Gcd(Abs(a.num), b.den)
      g2 == Gcd(Abs(b.num), a.den)
  IN Rat((a.num \div g1) * (b.num \div g2), (a.den \div g2) * (b.den \div g1))

RatDiv(a, b) ==
  RatMul(a, IF b.num > 0 THEN [num |-> b.den, den |-> b.num]
            ELSE [num |-> -b.den, den |-> -b.num])

RatSub(a, b) ==
  LET l == (a.den \div Gcd(a.den, b.den)) * b.den
  IN Rat(a.num * (l \div a.den) - b.num * (l \div b.den), l)

(* --------------------------- session ledger ---------------------------- *)
\* Variant of newMetric: the id is the previous length (0-based).
newMetricZeroBased(prev, tokenUsage) ==
  [id |-> Len(prev),
   realCost |-> tokenUsage.realCost,
   projectedCost |-> tokenUsage.projectedCostWithCache,
   potentialSavings |-> tokenUsage.projectedSavings,
   cachedTokens |-> tokenUsage.realCachedTokens,
   newTokens |-> tokenUsage.realNewTokens]

\* The SessionCostMetric built by the state updater (the timestamp is left out).
newMetric(prev, tokenUsage) ==
  [id |-> Len(prev) + 1,
   realCost |-> tokenUsage.realCost,
   projectedCost |-> tokenUsage.projectedCostWithCache,
   potentialSavings |-> tokenUsage.projectedSavings,
   cachedTokens |-> tokenUsage.realCachedTokens,
   newTokens |-> tokenUsage.realNewTokens]

\* Variant of updateSessionHistory: the new entry takes the place of the
\* last one, so that an append is lost.
updateSessionHistoryOverwritesLast(prev, analysisResult) ==
  IF analysisResult.tokenUsage # <<>>
  THEN IF Len(prev) = 0
       THEN <<newMetric(prev, analysisResult.tokenUsage[1])>>
       ELSE [prev EXCEPT ![Len(prev)] =
               newMetric(SubSeq(prev, 1, Len(prev) - 1),
                         analysisResult.tokenUsage[1])]
  ELSE prev

\* Variant of updateSessionHistory: an entry is appended whether or not the
\* result carries token usage.
updateSessionHistoryUnconditional(prev, analysisResult) ==
  Append(prev,
         IF analysisResult.tokenUsage # <<>>
         THEN newMetric(prev, analysisResult.tokenUsage[1])
         ELSE [id |-> Len(prev) + 1, realCost |-> 0, projectedCost |-> 0,
               potentialSavings |-> 0, cachedTokens |-> 0, newTokens |-> 0])

\* setSessionHistory(prev => [...prev, newMetric]) when token usage exists.
updateSessionHistory(prev, analysisResult) ==
  IF analysisResult.tokenUsage # <<>>
  THEN Append(prev, newMetric(prev, analysisResult.tokenUsage[1]))
  ELSE prev

(* --------------------------- scale projection -------------------------- *)
\* sessionHistory.reduce((acc, curr) => acc + curr[field], 0)
reduceSum(h, field) == SumSeq([i \in 1..Len(h) |-> h[i][field]])

\* Variant of averageOf: the sum is not divided by the number of entries.
averageOfUndivided(total, n) == FromInt(total)

averageOf(total, n) == IF n > 0 THEN RatDiv(FromInt(total), FromInt(n)) ELSE Zero

scaleOf(average) == RatMul(average, Rat(ScaleRequests, ProjectionUnit))

savingsPercentOf(savings, real) ==
  IF real.num > 0 THEN RatMul(RatDiv(savings, real), FromInt(100)) ELSE Zero

\* The projection calculations of the AnalysisResults component.
AnalysisResults(h) ==
  LET totalPotentialSavings == reduceSum(h, "potentialSavings")
      averageCostWithCache == averageOf(reduceSum(h, "projectedCost"), Len(h))
      averageRealCost == averageOf(reduceSum(h, "realCost"), Len(h))
      projectedAt1000 == scaleOf(averageCostWithCache)
      realAt1000 == scaleOf(averageRealCost)
      savingsAt1000 == RatSub(realAt1000, projectedAt1000)
      savingsPercent == savingsPercentOf(savingsAt1000, realAt1000)
  IN [totalPotentialSavings |-> totalPotentialSavings,
      projectedAt1000 |-> projectedAt1000,
      realAt1000 |-> realAt1000,
      savingsAt1000 |-> savingsAt1000,
      savingsPercent |-> savingsPercent]

\* The header badge: nothing for an empty ledger.
SessionSavingsBadge(h) ==
  IF Len(h) = 0 THEN <<>>
  ELSE LET totalPotentialSavings == reduceSum(h, "potentialSavings")
           totalRealCost == reduceSum(h, "realCost")
       IN <<[totalPotentialSavings |-> totalPotentialSavings,
             savingsPercent |->
               savingsPercentOf(FromInt(totalPotentialSavings),
                                FromInt(totalRealCost))]>>

\* What App renders: the badge always, the results view in state RESULTS.
render(st, an, img, h) ==
  [badge |-> SessionSavingsBadge(h),
   economics |-> IF st = "RESULTS" /\ an # <<>> /\ img # <<>>
                 THEN <<AnalysisResults(h)>> ELSE <<>>]

(* ------------------------------- state --------------------------------- *)
InitService ==
  /\ pc = "idle"
  /\ caller = "none"
  /\ maxRetries = 0
  /\ initialDelay = 0
  /\ retries = 0
  /\ delay = 0
  /\ attempts = 0
  /\ waits = <<>>
  /\ history = <<>>
  /\ rejected = <<>>
  /\ resolved = <<>>
  /\ thrown = <<>>
  /\ returned = <<>>
  /\ result = <<>>

InitApp ==
  /\ appState = "IDLE"
  /\ currentImage = <<>>
  /\ analysis = <<>>
  /\ error = <<>>
  /\ activeResultTab = "overview"
  /\ mentorChatState = NoChat
  /\ sessionHistory = <<>>
  /\ requests = {}
  /\ issued = 0
  /\ rendered = render("IDLE", <<>>, <<>>, <<>>)
  /\ mentorRequests = {}
  /\ asked = 0

Init == InitService /\ InitApp

(* ------------------------------ withRetry ------------------------------ *)
Delays == {1, 1000}

NoContentError ==
  [status |-> 0, code |-> 0, message |-> {"No response content from Gemini"}]

SyntaxError ==
  [status |-> 0, code |-> 0, message |-> {"Unexpected token"}]

\* withRetry(fn, r, d) is entered and fn() is invoked at once.
enter(who, r, d) ==
  /\ pc = "idle"
  /\ pc' = "pending"
  /\ caller' = who
  /\ maxRetries' = r
  /\ initialDelay' = d
  /\ retries' = r
  /\ delay' = d
  /\ attempts' = 1
  /\ UNCHANGED <<waits, history, rejected, resolved, thrown, returned, result,
                 appVars>>

withRetryCall == \E r \in 0..MaxRetriesBound, d \in Delays : enter("withRetry", r, d)

analyzeImageCall == enter("analyzeImage", DefaultRetries, DefaultDelay)

\* The remote request of the current attempt succeeds.
fnResolves ==
  /\ pc = "pending"
  /\ \E response \in Responses : resolved' = <<response>>
  /\ history' = Append(history, "OK")
  /\ pc' = "settled"
  /\ UNCHANGED <<caller, maxRetries, initialDelay, retries, delay, attempts,
                 waits, rejected, thrown, returned, result,
                 appVars>>

\* The remote request of the current attempt fails.
fnRejects ==
  /\ pc = "pending"
  /\ \E err \in Errors :
       /\ rejected' = <<err>>
       /\ history' = Append(history, classify(err))
  /\ pc' = "settled"
  /\ UNCHANGED <<caller, maxRetries, initialDelay, retries, delay, attempts,
                 waits, resolved, thrown, returned, result,
                 appVars>>

\* Variant of withRetryReturn: the recursive call is not returned, so a
\* success after a retry yields undefined.
undefinedResponse == [text |-> "", usageMetadata |-> <<>>]

withRetryReturnDropsRetryResult ==
  /\ pc = "settled"
  /\ resolved # <<>>
  /\ returned' = IF attempts > 1 THEN <<undefinedResponse>> ELSE resolved
  /\ pc' = "returned"
  /\ UNCHANGED <<caller, maxRetries, initialDelay, retries, delay, attempts,
                 waits, history, rejected, resolved, thrown, result,
                 appVars>>

\* return await fn()
withRetryReturn ==
  /\ pc = "settled"
  /\ resolved # <<>>
  /\ returned' = resolved
  /\ pc' = "returned"
  /\ UNCHANGED <<caller, maxRetries, initialDelay, retries, delay, attempts,
                 waits, history, rejected, resolved, thrown, result,
                 appVars>>

\* Variant of withRetryCatch: the retry test comes before the permission test.
withRetryCatchRetryFirst ==
  /\ pc = "settled"
  /\ rejected # <<>>
  /\ LET err == rejected[1] IN
       IF shouldRetry(err, retries)
       THEN /\ waits' = Append(waits, delay)
            /\ pc' = "waiting"
            /\ UNCHANGED thrown
       ELSE /\ thrown' = <<err>>
            /\ pc' = "thrown"
            /\ UNCHANGED waits
  /\ UNCHANGED <<caller, maxRetries, initialDelay, retries, delay, attempts,
                 history, rejected, resolved, returned, result,
                 appVars>>

\* catch (error): fail fast, or schedule the backoff timer, or give up.
withRetryCatch ==
  /\ pc = "settled"
  /\ rejected # <<>>
  /\ LET err == rejected[1] IN
       IF isPermissionError(err)
       THEN /\ thrown' = <<err>>
            /\ pc' = "thrown"
            /\ UNCHANGED waits
       ELSE IF shouldRetry(err, retries)
       THEN /\ waits' = Append(waits, delay)
            /\ pc' = "waiting"
            /\ UNCHANGED thrown
       ELSE /\ thrown' = <<err>>
            /\ pc' = "thrown"
            /\ UNCHANGED waits
  /\ UNCHANGED <<caller, maxRetries, initialDelay, retries, delay, attempts,
                 history, rejected, resolved, returned, result,
                 appVars>>

\* Variant of timerFires: the timer is only served once no retry is left,
\* so that a scheduled retry never starts.
timerFiresOnlyWithoutBudget ==
  /\ pc = "waiting"
  /\ retries = 0
  /\ retries' = retries - 1
  /\ delay' = nextDelay(delay)
  /\ attempts' = attempts + 1
  /\ rejected' = <<>>
  /\ pc' = "pending"
  /\ UNCHANGED <<caller, maxRetries, initialDelay, waits, history, resolved,
                 thrown, returned, result,
                 appVars>>

\* The timer fires: return withRetry(fn, retries - 1, delay * 2).
timerFires ==
  /\ pc = "waiting"
  /\ retries' = retries - 1
  /\ delay' = nextDelay(delay)
  /\ attempts' = attempts + 1
  /\ rejected' = <<>>
  /\ pc' = "pending"
  /\ UNCHANGED <<caller, maxRetries, initialDelay, waits, history, resolved,
                 thrown, returned, result,
                 appVars>>

(* ----------------------------- analyzeImage ---------------------------- *)
\* The rest of analyzeImage once withRetry has returned the response.
analyzeImageFinish ==
  /\ pc = "returned"
  /\ caller = "analyzeImage"
  /\ LET response == returned[1] IN
       IF response.text = ""
       THEN /\ thrown' = <<NoContentError>>
            /\ pc' = "rejected"
            /\ UNCHANGED result
       ELSE IF response.text # "json"
       THEN /\ thrown' = <<SyntaxError>>
            /\ pc' = "rejected"
            /\ UNCHANGED result
       ELSE /\ result' =
                 <<[tokenUsage |->
                      IF response.usageMetadata = <<>> THEN <<>>
                      ELSE <<computeTokenUsage(response.usageMetadata[1])>>]>>
            /\ pc' = "resolved"
            /\ UNCHANGED thrown
  /\ UNCHANGED <<caller, maxRetries, initialDelay, retries, delay, attempts,
                 waits, history, rejected, resolved, returned,
                 appVars>>

\* An error thrown by withRetry leaves analyzeImage unchanged.
analyzeImagePropagate ==
  /\ pc = "thrown"
  /\ caller = "analyzeImage"
  /\ pc' = "rejected"
  /\ UNCHANGED <<caller, maxRetries, initialDelay, retries, delay, attempts,
                 waits, history, rejected, resolved, thrown, returned, result,
                 appVars>>

Next ==
  \/ withRetryCall
  \/ analyzeImageCall
  \/ fnResolves
  \/ fnRejects
  \/ withRetryReturn
  \/ withRetryCatch
  \/ timerFires
  \/ analyzeImageFinish
  \/ analyzeImagePropagate

Spec == Init /\ [][Next]_vars

\* Every attempt settles, every timer fires, and the wrapper itself runs on.
Fairness ==
  /\ WF_vars(fnResolves \/ fnRejects)
  /\ WF_vars(timerFires)
  /\ WF_vars(withRetryReturn)
  /\ WF_vars(withRetryCatch)

SpecLive == Init /\ [][Next]_vars /\ Fairness

(* --------------------------------- App --------------------------------- *)
Images == {"imgA", "imgB"}

\* Usage records of the analyses the App receives.
AppUsageMetadatas ==
  [promptTokenCount : {0, 400}, candidatesTokenCount : {0, 10},
   totalTokenCount : {NoValue}, cachedContentTokenCount : {0}]

\* What analyzeImage resolves with: an analysis with or without tokenUsage.
AnalysisOutcomes ==
  {[tokenUsage |-> <<>>]}
  \cup {[tokenUsage |-> <<computeTokenUsage(u)>>] : u \in AppUsageMetadatas}

\* What analyzeImage rejects with.
AppErrors ==
  {[status |-> 403, code |-> 0, message |-> {"Permission Denied"}],
   [status |-> 503, code |-> 0, message |-> {}],
   NoContentError}

\* The permission/key test of the catch block of handleImageSelected.
isApiKeyError(err) ==
  LET errorMessage == toLowerCase(err.message) IN
    \/ includes(errorMessage, "permission denied")
    \/ includes(errorMessage, "403")
    \/ includes(errorMessage, "404")
    \/ includes(errorMessage, "requested entity was not found")
    \/ includes(errorMessage, "api key")
    \/ includes(errorMessage, "quota")

\* handleImageSelected up to the await: the uploader calls it in state IDLE.
handleImageSelected ==
  /\ appState = "IDLE"
  /\ issued < MaxRequests
  /\ \E base64 \in Images :
       /\ currentImage' = <<base64>>
       /\ requests' = requests \cup {[id |-> issued + 1, image |-> base64]}
  /\ issued' = issued + 1
  /\ appState' = "ANALYZING"
  /\ error' = <<>>
  /\ activeResultTab' = "overview"
  /\ mentorChatState' = NoChat
  /\ rendered' = render(appState', analysis, currentImage', sessionHistory)
  /\ UNCHANGED <<analysis, sessionHistory, serviceVars, mentorCalls>>

\* handleImageSelected after the await, analyzeImage having resolved.
analyzeImageResolved ==
  /\ \E request \in requests, outcome \in AnalysisOutcomes :
       /\ requests' = requests \ {request}
       /\ analysis' = <<[image |-> request.image,
                         tokenUsage |-> outcome.tokenUsage]>>
       /\ sessionHistory' = updateSessionHistory(sessionHistory, outcome)
  /\ appState' = "RESULTS"
  /\ rendered' = render(appState', analysis', currentImage, sessionHistory')
  /\ UNCHANGED <<currentImage, error, activeResultTab, mentorChatState,
                 issued, serviceVars, mentorCalls>>

\* handleImageSelected after the await, analyzeImage having rejected.
analyzeImageRejected ==
  /\ \E request \in requests, err \in AppErrors :
       /\ requests' = requests \ {request}
       /\ error' = IF isApiKeyError(err)
                   THEN <<[text |-> "API_KEY_ERROR", message |-> {}]>>
                   ELSE <<[text |-> "Failed to analyze image. Please try again. ",
                           message |-> err.message]>>
  /\ appState' = "ERROR"
  /\ rendered' = render(appState', analysis, currentImage, sessionHistory)
  /\ UNCHANGED <<currentImage, analysis, activeResultTab, mentorChatState,
                 sessionHistory, issued, serviceVars, mentorCalls>>

\* Variant of handleReset: the session history is cleared as well.
handleResetClearsHistory ==
  /\ appState' = "IDLE"
  /\ currentImage' = <<>>
  /\ analysis' = <<>>
  /\ error' = <<>>
  /\ mentorChatState' = NoChat
  /\ sessionHistory' = <<>>
  /\ rendered' = render(appState', analysis', currentImage', sessionHistory')
  /\ UNCHANGED <<activeResultTab, requests, issued, serviceVars, mentorCalls>>

\* handleReset: the header logo, "Analyze Another Photo", "Try Again".
handleReset ==
  /\ appState' = "IDLE"
  /\ currentImage' = <<>>
  /\ analysis' = <<>>
  /\ error' = <<>>
  /\ mentorChatState' = NoChat
  /\ rendered' = render(appState', analysis', currentImage', sessionHistory)
  /\ UNCHANGED <<activeResultTab, sessionHistory, requests, issued,
                 serviceVars, mentorCalls>>

NextApp ==
  \/ handleImageSelected
  \/ analyzeImageResolved
  \/ analyzeImageRejected
  \/ handleReset

SpecApp == Init /\ [][NextApp]_vars

(* ------------- one analysis from the upload to the result -------------- *)
\* handleImageSelected up to the await, with the call of analyzeImage it
\* makes: withRetry is entered with the default budget and delay.
handleImageSelectedCall ==
  /\ appState = "IDLE"
  /\ pc = "idle"
  /\ issued < MaxRequests
  /\ \E base64 \in Images :
       /\ currentImage' = <<base64>>
       /\ requests' = requests \cup {[id |-> issued + 1, image |-> base64]}
  /\ issued' = issued + 1
  /\ appState' = "ANALYZING"
  /\ error' = <<>>
  /\ activeResultTab' = "overview"
  /\ mentorChatState' = NoChat
  /\ rendered' = render(appState', analysis, currentImage', sessionHistory)
  /\ pc' = "pending"
  /\ caller' = "analyzeImage"
  /\ maxRetries' = DefaultRetries
  /\ initialDelay' = DefaultDelay
  /\ retries' = DefaultRetries
  /\ delay' = DefaultDelay
  /\ attempts' = 1
  /\ UNCHANGED <<analysis, sessionHistory, waits, history, rejected, resolved,
                 thrown, returned, result,
                 mentorCalls>>

\* The try block after the await: analyzeImage has resolved with result.
handleImageSelectedThen ==
  /\ pc = "resolved"
  /\ caller = "analyzeImage"
  /\ \E request \in requests :
       /\ requests' = requests \ {request}
       /\ analysis' = <<[image |-> request.image,
                         tokenUsage |-> result[1].tokenUsage]>>
  /\ sessionHistory' = updateSessionHistory(sessionHistory, result[1])
  /\ appState' = "RESULTS"
  /\ rendered' = render(appState', analysis', currentImage, sessionHistory')
  /\ pc' = "done"
  /\ UNCHANGED <<currentImage, error, activeResultTab, mentorChatState, issued,
                 caller, maxRetries, initialDelay, retries, delay, attempts,
                 waits, history, rejected, resolved, thrown, returned, result,
                 mentorCalls>>

\* The catch block: analyzeImage has rejected with the error thrown.
handleImageSelectedCatch ==
  /\ pc = "rejected"
  /\ caller = "analyzeImage"
  /\ \E request \in requests : requests' = requests \ {request}
  /\ LET err == thrown[1] IN
       error' = IF isApiKeyError(err)
                THEN <<[text |-> "API_KEY_ERROR", message |-> {}]>>
                ELSE <<[text |-> "Failed to analyze image. Please try again. ",
                        message |-> err.message]>>
  /\ appState' = "ERROR"
  /\ rendered' = render(appState', analysis, currentImage, sessionHistory)
  /\ pc' = "done"
  /\ UNCHANGED <<currentImage, analysis, activeResultTab, mentorChatState,
                 sessionHistory, issued,
                 caller, maxRetries, initialDelay, retries, delay, attempts,
                 waits, history, rejected, resolved, thrown, returned, result,
                 mentorCalls>>

NextSession ==
  \/ handleImageSelectedCall
  \/ fnResolves
  \/ fnRejects
  \/ withRetryReturn
  \/ withRetryCatch
  \/ timerFires
  \/ analyzeImageFinish
  \/ analyzeImagePropagate
  \/ handleImageSelectedThen
  \/ handleImageSelectedCatch

SpecSession == Init /\ [][NextSession]_vars

(* ----------------------------- mentor chat ----------------------------- *)
\* Math.floor(chatState.messages.length / 2)
turnCountOf(chatState) == Len(chatState.messages) \div 2

isLimitReached(chatState) == turnCountOf(chatState) >= TurnLimit

\* The MentorChatWidget is on screen: the result view with the mentor tab.
MentorChatWidget ==
  /\ appState = "RESULTS"
  /\ analysis # <<>>
  /\ currentImage # <<>>
  /\ activeResultTab = "mentor"

\* handleSendMessage up to the await (the input is not blank).
handleSendMessage ==
  /\ MentorChatWidget
  /\ ~mentorChatState.isLoading
  /\ ~isLimitReached(mentorChatState)
  /\ asked < MaxQuestions
  /\ LET userMsg == [role |-> "user", question |-> asked + 1] IN
       mentorChatState' =
         [mentorChatState EXCEPT !.messages = Append(@, userMsg),
                                 !.isLoading = TRUE,
                                 !.error = <<>>]
  /\ mentorRequests' = mentorRequests \cup {asked + 1}
  /\ asked' = asked + 1
  /\ UNCHANGED <<appState, currentImage, analysis, error, activeResultTab,
                 sessionHistory, requests, issued, rendered, serviceVars>>

\* handleSendMessage after the await, askPhotographyMentor having resolved.
askPhotographyMentorResolved ==
  /\ \E question \in mentorRequests :
       /\ mentorRequests' = mentorRequests \ {question}
       /\ LET assistantMsg == [role |-> "assistant", question |-> question] IN
            mentorChatState' =
              [mentorChatState EXCEPT !.messages = Append(@, assistantMsg),
                                      !.isLoading = FALSE]
  /\ UNCHANGED <<appState, currentImage, analysis, error, activeResultTab,
                 sessionHistory, requests, issued, rendered, asked,
                 serviceVars>>

\* handleSendMessage after the await, askPhotographyMentor having rejected.
askPhotographyMentorRejected ==
  /\ \E question \in mentorRequests :
       mentorRequests' = mentorRequests \ {question}
  /\ mentorChatState' =
       [mentorChatState EXCEPT
          !.isLoading = FALSE,
          !.error = <<"Mentor is temporarily unavailable. Please try again.">>]
  /\ UNCHANGED <<appState, currentImage, analysis, error, activeResultTab,
                 sessionHistory, requests, issued, rendered, asked,
                 serviceVars>>

\* An analysis is on screen and the user has opened the mentor tab.
InitMentor ==
  /\ InitService
  /\ appState = "RESULTS"
  /\ currentImage = <<"imgA">>
  /\ analysis = <<[image |-> "imgA", tokenUsage |-> <<>>]>>
  /\ error = <<>>
  /\ activeResultTab = "mentor"
  /\ mentorChatState = NoChat
  /\ sessionHistory = <<>>
  /\ requests = {}
  /\ issued = 1
  /\ rendered = render(appState, analysis, currentImage, sessionHistory)
  /\ mentorRequests = {}
  /\ asked = 0

NextMentor ==
  \/ handleSendMessage
  \/ askPhotographyMentorResolved
  \/ askPhotographyMentorRejected
  \/ handleReset

SpecMentor == InitMentor /\ [][NextMentor]_vars

(* ---------------- the projection on ledgers given as props ------------- *)
\* 0.002/0.001 and 0.003/0.0012 dollars, a free request, a dearer projection.
LedgerCosts ==
  {[realCost |-> 320000, projectedCost |-> 160000, potentialSavings |-> 160000],
   [realCost |-> 480000, projectedCost |-> 192000, potentialSavings |-> 288000],
   [realCost |-> 0, projectedCost |-> 54460, potentialSavings |-> 0],
   [realCost |-> 16800, projectedCost |-> 71260, potentialSavings |-> 0]}

Ledgers ==
  UNION {{[i \in 1..n |->
             [id |-> i,
              realCost |-> f[i].realCost,
              projectedCost |-> f[i].projectedCost,
              potentialSavings |-> f[i].potentialSavings,
              cachedTokens |-> 0,
              newTokens |-> 0]] : f \in [1..n -> LedgerCosts]}
         : n \in 0..MaxLedger}

NotRendered == [badge |-> <<>>, economics |-> <<>>]

InitProjection ==
  /\ InitService
  /\ appState = "RESULTS"
  /\ currentImage = <<"imgA">>
  /\ analysis = <<[image |-> "imgA", tokenUsage |-> <<>>]>>
  /\ error = <<>>
  /\ activeResultTab = "economics"
  /\ mentorChatState = NoChat
  /\ sessionHistory \in Ledgers
  /\ requests = {}
  /\ issued = 0
  /\ rendered = NotRendered
  /\ mentorRequests = {}
  /\ asked = 0

\* App renders the badge and the AnalysisResults component.
renderAnalysisResults ==
  /\ rendered = NotRendered
  /\ rendered' = render(appState, analysis, currentImage, sessionHistory)
  /\ UNCHANGED <<appState, currentImage, analysis, error, activeResultTab,
                 mentorChatState, sessionHistory, requests, issued,
                 serviceVars, mentorCalls>>

NextProjection == renderAnalysisResults

SpecProjection == InitProjection /\ [][NextProjection]_vars

TypeOK ==
  /\ pc \in {"idle", "pending", "settled", "waiting", "returned", "thrown",
             "resolved", "rejected", "done"}
  /\ attempts \in 0..(MaxRetriesBound + 1)
  /\ Len(waits) <= MaxRetriesBound

(* ------------------- error classes as the claims read them ------------- *)
\* Authorization, resource-existence or billing indication (403/404 class).
FatalIndicator(e) ==
  \/ e.status \in {403, 404}
  \/ e.message \cap {"Permission Denied", "403", "404", "not found", "billing"} # {}

\* A server-fault code the wrapper recognizes: status 500/503, code 500, or
\* the text 500 in the message.
ServerFaultCode(e) ==
  \/ e.status \in {500, 503}
  \/ e.code = 500
  \/ "500" \in e.message

Transient(e) == ~FatalIndicator(e) /\ ServerFaultCode(e)

Fatal(e) == ~Transient(e)

AllTransient(h) == \A i \in 1..Len(h) : h[i] = "TRANSIENT"

TransientThenOK(h) ==
  /\ Len(h) >= 1
  /\ h[Len(h)] = "OK"
  /\ \A i \in 1..(Len(h) - 1) : h[i] = "TRANSIENT"

\* The step in which the failure of the current attempt is handled.
Handling == pc = "settled" /\ rejected # <<>>

\* The failure is propagated at once: thrown unchanged, no timer, no attempt.
FailsFast ==
  /\ pc' = "thrown"
  /\ thrown' = rejected
  /\ waits' = waits
  /\ attempts' = attempts

(* -------------------------------- C1 ----------------------------------- *)
\* C1: one call of withRetry invokes the operation at most maxRetries + 1
\* times, whatever the pattern of failures.
C1_AtMostMaxRetriesPlusOneAttempts ==
  /\ attempts <= maxRetries + 1
  /\ Len(history) <= attempts

C1_Witness ==
  /\ pc = "thrown"
  /\ maxRetries = 2
  /\ attempts = 3

(* -------------------------------- C2 ----------------------------------- *)
\* C2: a failure classified FATAL, on the first attempt or after transient
\* failures and whatever budget remains, is propagated unchanged with no
\* further attempt and no delay; nothing happens to the call afterwards.
C2_FatalPropagatesImmediately ==
  /\ [][Handling /\ Fatal(rejected[1]) => FailsFast]_vars
  /\ [][pc = "thrown" =>
          /\ attempts' = attempts
          /\ waits' = waits
          /\ thrown' = thrown]_vars
  /\ [](pc = "thrown" /\ Len(history) = 1 => attempts = 1 /\ waits = <<>>)

C2_Witness ==
  /\ pc = "thrown"
  /\ attempts = 2
  /\ retries >= 1
  /\ FatalIndicator(rejected[1])
  /\ ServerFaultCode(rejected[1])
  /\ thrown = rejected

(* -------------------------------- C3 ----------------------------------- *)
\* C3: when every attempt fails with a TRANSIENT error the wrapper makes
\* exactly maxRetries + 1 attempts and then throws the last attempt's error.
C3_AlwaysTransientExhaustsBudget ==
  pc = "thrown" /\ AllTransient(history) =>
    /\ attempts = maxRetries + 1
    /\ Len(history) = attempts
    /\ retries = 0
    /\ thrown = rejected

C3_Witness ==
  /\ pc = "thrown"
  /\ AllTransient(history)
  /\ maxRetries = 3
  /\ attempts = 4

(* -------------------------------- C4 ----------------------------------- *)
\* C4: k TRANSIENT failures (k < maxRetries) followed by a success make the
\* wrapper return that success value after exactly k + 1 attempts, with no
\* error raised.
C4_SucceedsAfterTransientFailures ==
  /\ [][pc = "settled" /\ resolved # <<>> =>
          pc' = "returned" /\ returned' = resolved]_vars
  /\ [](pc = "returned" =>
          /\ TransientThenOK(history)
          /\ attempts = Len(history)
          /\ returned = resolved
          /\ thrown = <<>>)

C4_Witness ==
  /\ pc = "returned"
  /\ maxRetries = 3
  /\ history = <<"TRANSIENT", "TRANSIENT", "OK">>
  /\ attempts = 3

(* -------------------------------- C5 ----------------------------------- *)
\* C5: the i-th wait is initialDelay * 2^(i-1), every wait is over before
\* the next attempt starts, and a call that uses up its budget has waited
\* initialDelay * (2^maxRetries - 1) in total.
C5_ExponentialBackoff ==
  /\ \A i \in 1..Len(waits) : waits[i] = initialDelay * Pow2(i - 1)
  /\ pc = "pending" => Len(waits) = attempts - 1
  /\ pc = "waiting" => Len(waits) = attempts
  /\ pc = "thrown" /\ attempts = maxRetries + 1 =>
       SumSeq(waits) = initialDelay * (Pow2(maxRetries) - 1)

C5_Witness ==
  /\ pc = "thrown"
  /\ maxRetries = 3
  /\ initialDelay = 1000
  /\ waits = <<1000, 2000, 4000>>

(* -------------------------------- C6 ----------------------------------- *)
PermissionIndication(e) ==
  \/ e.status \in {403, 404}
  \/ e.message \cap {"Permission Denied", "not found", "billing"} # {}

LastClass == history[Len(history)]

\* C6: an error with status 403 or 404, or a message indicating permission
\* denied, not found or billing, is classified FATAL and never retried,
\* whatever its other fields say.
C6_PermissionErrorsAreFatal ==
  /\ [][Handling /\ PermissionIndication(rejected[1]) => FailsFast]_vars
  /\ [](rejected # <<>> /\ PermissionIndication(rejected[1]) =>
          LastClass = "FATAL" /\ pc # "waiting")

C6_Witness ==
  /\ pc = "thrown"
  /\ retries >= 1
  /\ rejected[1].status = 500
  /\ rejected[1].message = {"500", "billing"}
  /\ thrown = rejected

(* -------------------------------- C7 ----------------------------------- *)
\* Server-side fault as the original statement reads it: status 500 or 503,
\* or a message that says internal error.
ServerFaultOrInternalErrorMessage(e) ==
  \/ e.status \in {500, 503}
  \/ "Internal Error" \in e.message

\* C7 as stated: an error with no fatal indicator and status 500 or 503 or
\* an "internal error" message is never given up on while retries remain.
C7_Original ==
  pc = "thrown" /\ retries > 0 =>
    ~(~FatalIndicator(thrown[1]) /\ ServerFaultOrInternalErrorMessage(thrown[1]))

\* C7 amended: an error with no fatal indicator that carries a server-fault
\* code (status 500 or 503, code 500, or the text 500 in its message) is
\* classified TRANSIENT; while retries remain the wrapper schedules the
\* backoff timer for it and then makes the next attempt.
C7_ServerFaultCodeIsRetried ==
  /\ [][Handling /\ Transient(rejected[1]) /\ retries > 0 =>
          /\ pc' = "waiting"
          /\ waits' = Append(waits, delay)
          /\ thrown' = <<>>
          /\ attempts' = attempts]_vars
  /\ [][pc = "waiting" =>
          /\ pc' = "pending"
          /\ attempts' = attempts + 1
          /\ retries' = retries - 1]_vars
  /\ [](rejected # <<>> /\ Transient(rejected[1]) => LastClass = "TRANSIENT")

C7_Witness ==
  /\ pc = "waiting"
  /\ rejected[1] = [status |-> 503, code |-> 0, message |-> {}]
  /\ waits = <<initialDelay>>

(* -------------------------------- C8 ----------------------------------- *)
Unrecognized(e) == ~FatalIndicator(e) /\ ~ServerFaultCode(e)

\* C8: an error that matches neither the fatal pattern nor a recognized
\* server-fault code is treated as FATAL: it is propagated at once, and when
\* it is the first failure there has been one attempt and no delay.
C8_UnrecognizedErrorsFailFast ==
  /\ [][Handling /\ Unrecognized(rejected[1]) => FailsFast]_vars
  /\ [](rejected # <<>> /\ Unrecognized(rejected[1]) =>
          LastClass = "FATAL" /\ pc # "waiting")
  /\ [](pc = "thrown" /\ Len(history) = 1 /\ Unrecognized(rejected[1]) =>
          attempts = 1 /\ waits = <<>> /\ thrown = rejected)

C8_Witness ==
  /\ pc = "thrown"
  /\ maxRetries = 3
  /\ attempts = 1
  /\ waits = <<>>
  /\ rejected[1] = [status |-> 429, code |-> 0, message |-> {"Internal Error"}]
  /\ thrown = rejected

(* -------------------------------- C9 ----------------------------------- *)
\* A token count as the usage record reports it (absent counts as 0).
Reported(x) == IF x = NoValue THEN 0 ELSE x

UsageOfResponse == returned[1].usageMetadata[1]

HasCostRecord ==
  /\ pc = "resolved"
  /\ returned[1].usageMetadata # <<>>
  /\ result[1].tokenUsage # <<>>

CostRecord == result[1].tokenUsage[1]

\* C9: when 0 <= cachedPromptTokens <= rawPromptTokens the cost record has
\* realNewTokens + realCachedTokens = rawPromptTokens.
C9_NewPlusCachedIsRawPrompt ==
  /\ pc = "resolved" /\ returned[1].usageMetadata # <<>> =>
       result[1].tokenUsage # <<>>
  /\ HasCostRecord =>
       LET raw == Reported(UsageOfResponse.promptTokenCount)
           cached == Reported(UsageOfResponse.cachedContentTokenCount)
       IN 0 <= cached /\ cached <= raw =>
            CostRecord.realNewTokens + CostRecord.realCachedTokens = raw

C9_Witness ==
  /\ HasCostRecord
  /\ UsageOfResponse.promptTokenCount = 3000
  /\ UsageOfResponse.cachedContentTokenCount = 2500
  /\ CostRecord.realNewTokens = 500

(* -------------------------------- C10 ---------------------------------- *)
\* C10: for non-negative token counts, the all-zero record included,
\* realCost, projectedCostWithCache and projectedSavings are all >= 0.
C10_CostsAreNonNegative ==
  HasCostRecord =>
    /\ CostRecord.realCost >= 0
    /\ CostRecord.projectedCostWithCache >= 0
    /\ CostRecord.projectedSavings >= 0

C10_Witness ==
  /\ HasCostRecord
  /\ UsageOfResponse.promptTokenCount = 0
  /\ UsageOfResponse.candidatesTokenCount = 0
  /\ UsageOfResponse.totalTokenCount = 0
  /\ UsageOfResponse.cachedContentTokenCount = 0
  /\ CostRecord.realCost = 0
  /\ CostRecord.projectedSavings = 0

(* -------------------------------- C11 ---------------------------------- *)
Min(a, b) == IF a <= b THEN a ELSE b

RawPromptTokens == Reported(UsageOfResponse.promptTokenCount)

ReportedCachedTokens == Reported(UsageOfResponse.cachedContentTokenCount)

ReportedOutputTokens == Reported(UsageOfResponse.candidatesTokenCount)

\* C11: projectedCachedTokens = min(staticPromptTokenEstimate,
\* rawPromptTokens), so it never exceeds rawPromptTokens.
C11_ProjectedCachedIsMinOfEstimateAndRaw ==
  HasCostRecord =>
    /\ CostRecord.projectedCachedTokens =
         Min(PromptLength \div 4, RawPromptTokens)
    /\ CostRecord.projectedCachedTokens <= RawPromptTokens

(* -------------------------------- C12 ---------------------------------- *)
\* C12: when cachedPromptTokens > rawPromptTokens the cached count is
\* clamped: realCachedTokens = rawPromptTokens and realNewTokens = 0.
C12_CachedCountIsClampedToRaw ==
  HasCostRecord /\ ReportedCachedTokens > RawPromptTokens =>
    /\ CostRecord.realCachedTokens = RawPromptTokens
    /\ CostRecord.realNewTokens = 0

(* -------------------------------- C13 ---------------------------------- *)
\* C13: when rawPromptTokens = 0 every field of the cost record is zero.
C13_ZeroPromptGivesZeroRecord ==
  HasCostRecord /\ RawPromptTokens = 0 =>
    /\ CostRecord.realCachedTokens = 0
    /\ CostRecord.realNewTokens = 0
    /\ CostRecord.totalTokens = 0
    /\ CostRecord.realCost = 0
    /\ CostRecord.projectedCachedTokens = 0
    /\ CostRecord.projectedCostWithCache = 0
    /\ CostRecord.projectedSavings = 0

(* -------------------------------- C14 ---------------------------------- *)
\* C14: projectedSavings = max(0, realCost - projectedCostWithCache): the
\* difference when the projection is cheaper, exactly 0 otherwise.
C14_SavingsAreClampedDifference ==
  HasCostRecord =>
    /\ CostRecord.projectedCostWithCache < CostRecord.realCost =>
         CostRecord.projectedSavings =
           CostRecord.realCost - CostRecord.projectedCostWithCache
    /\ CostRecord.projectedCostWithCache >= CostRecord.realCost =>
         CostRecord.projectedSavings = 0

C14_Witness ==
  /\ HasCostRecord
  /\ RawPromptTokens = 1
  /\ CostRecord.projectedCostWithCache > CostRecord.realCost
  /\ CostRecord.projectedSavings = 0

(* -------------------------------- C15 ---------------------------------- *)
\* C15: realCost = realCachedTokens * cachedInputRate + realNewTokens *
\* inputRate + outputTokens * outputRate at the pro rates, with
\* realCachedTokens the reported cached count and realNewTokens =
\* max(0, rawPromptTokens - realCachedTokens); 3000 prompt, 500 output and
\* 0 cached tokens cost 0.01575 dollars (2520000 price units).
C15_RealCostFormula ==
  HasCostRecord =>
    /\ CostRecord.realCachedTokens = ReportedCachedTokens
    /\ CostRecord.realNewTokens =
         (IF RawPromptTokens > ReportedCachedTokens
          THEN RawPromptTokens - ReportedCachedTokens ELSE 0)
    /\ CostRecord.realCost =
         CostRecord.realCachedTokens * PRICING.pro.cachedInput
         + CostRecord.realNewTokens * PRICING.pro.input
         + ReportedOutputTokens * PRICING.pro.output
    /\ (RawPromptTokens = 3000 /\ ReportedOutputTokens = 500
        /\ ReportedCachedTokens = 0) =>
         CostRecord.realCost = 1575 * (UnitsPerDollar \div 100000)

C15_Witness ==
  /\ HasCostRecord
  /\ RawPromptTokens = 3000
  /\ ReportedOutputTokens = 500
  /\ ReportedCachedTokens = 0
  /\ CostRecord.realCost = 2520000

LedgerChanges == sessionHistory' # sessionHistory

\* A step that puts one entry at the end and keeps the earlier ones.
AppendsOne ==
  /\ Len(sessionHistory') = Len(sessionHistory) + 1
  /\ SubSeq(sessionHistory', 1, Len(sessionHistory)) = sessionHistory

\* The step of a reset as the user sees it: back to the upload view with no
\* image, no analysis and no error.
ResetStep ==
  /\ appState' = "IDLE"
  /\ currentImage' = <<>>
  /\ analysis' = <<>>
  /\ error' = <<>>

\* C17: every change of the session ledger adds exactly one entry at the
\* end, with id previous length + 1, and leaves the earlier entries as they
\* were; hence the k-th entry always has id k (ids start at 1 and increase
\* strictly in insertion order).
C17_AppendsNumberFromOne ==
  /\ [](\A k \in 1..Len(sessionHistory) : sessionHistory[k].id = k)
  /\ [][LedgerChanges =>
          /\ AppendsOne
          /\ sessionHistory'[Len(sessionHistory')].id = Len(sessionHistory) + 1
       ]_vars

C17_Witness ==
  /\ Len(sessionHistory) >= 2
  /\ sessionHistory[1].id = 1
  /\ sessionHistory[2].id = 2

RECURSIVE SumOf(_, _)
SumOf(h, field) ==
  IF Len(h) = 0 THEN 0 ELSE h[1][field] + SumOf(Tail(h), field)

\* q is the fraction a / b in lowest terms (b > 0).
IsQuotient(q, a, b) ==
  /\ q.den > 0
  /\ b % q.den = 0
  /\ q.num * (b \div q.den) = a

IsInteger(q, n) == q.num = n /\ q.den = 1

Projection == rendered.economics[1]

\* n / d dollars in price units (d divides UnitsPerDollar).
Dollars(n, d) == (UnitsPerDollar \div d) * n

\* n / d dollars in the unit of the projected amounts.
ProjectedDollars(n, d) == Dollars(n, d) \div ProjectionUnit

\* 0.002 and 0.003 dollars real, 0.001 and 0.0012 dollars projected.
ExampleLedger ==
  /\ Len(sessionHistory) = 2
  /\ sessionHistory[1].realCost = Dollars(2, 1000)
  /\ sessionHistory[2].realCost = Dollars(3, 1000)
  /\ sessionHistory[1].projectedCost = Dollars(1, 1000)
  /\ sessionHistory[2].projectedCost = Dollars(12, 10000)

\* C19: for a non-empty ledger the projection to 1000 requests is
\* realAtScale = mean(realCost) * 1000, projectedAtScale =
\* mean(projectedCost) * 1000, savingsAtScale = realAtScale -
\* projectedAtScale and, the real cost being positive, savingsPercent =
\* savingsAtScale / realAtScale * 100; real costs 0.002 and 0.003 with
\* projected costs 0.001 and 0.0012 give 2.5, 1.1, 1.4 dollars and 56.
C19_ScaleProjection ==
  (rendered.economics # <<>> /\ Len(sessionHistory) > 0) =>
    LET n == Len(sessionHistory)
        sumReal == SumOf(sessionHistory, "realCost")
        sumProjected == SumOf(sessionHistory, "projectedCost")
        scale == ScaleRequests \div ProjectionUnit
    IN  /\ IsQuotient(Projection.realAt1000, sumReal * scale, n)
        /\ IsQuotient(Projection.projectedAt1000, sumProjected * scale, n)
        /\ IsQuotient(Projection.savingsAt1000,
                      (sumReal - sumProjected) * scale, n)
        /\ sumReal > 0 =>
             IsQuotient(Projection.savingsPercent,
                        (sumReal - sumProjected) * 100, sumReal)
        /\ ExampleLedger =>
             /\ IsInteger(Projection.realAt1000, ProjectedDollars(25, 10))
             /\ IsInteger(Projection.projectedAt1000,
                          ProjectedDollars(11, 10))
             /\ IsInteger(Projection.savingsAt1000,
                          ProjectedDollars(14, 10))
             /\ IsInteger(Projection.savingsPercent, 56)

C19_Witness ==
  /\ rendered.economics # <<>>
  /\ ExampleLedger
  /\ IsInteger(Projection.savingsPercent, 56)

\* C20: on an empty ledger, and on a ledger whose mean real cost is 0, the
\* projection is 0 in all four of realAtScale, projectedAtScale,
\* savingsAtScale and savingsPercent.
C20_ZeroMeanGivesZeroProjection ==
  (/\ rendered.economics # <<>>
   /\ SumOf(sessionHistory, "realCost") = 0) =>
    /\ Projection.realAt1000.num = 0
    /\ Projection.projectedAt1000.num = 0
    /\ Projection.savingsAt1000.num = 0
    /\ Projection.savingsPercent.num = 0

\* The part of C20 that the code meets: the empty ledger.
C20_EmptyLedgerGivesZeroProjection ==
  (rendered.economics # <<>> /\ Len(sessionHistory) = 0) =>
    /\ Projection.realAt1000 = Zero
    /\ Projection.projectedAt1000 = Zero
    /\ Projection.savingsAt1000 = Zero
    /\ Projection.savingsPercent = Zero

(* --------------------- how failures reach the user (C21) --------------- *)
\* The analysis has failed and the catch block of the App has run.
FailureShown == pc = "done" /\ appState = "ERROR" /\ thrown # <<>>

ShownAsReconnect == error # <<>> /\ error[1].text = "API_KEY_ERROR"

ShownAsTryAgain ==
  /\ error # <<>>
  /\ error[1].text = "Failed to analyze image. Please try again. "

\* The retry budget is used up and every attempt failed with a server fault.
BudgetExhausted == attempts = maxRetries + 1 /\ AllTransient(history)

\* C21, first half: an error with a fatal indication (permission denied, 403,
\* 404, not found, billing) is shown as API_KEY_ERROR.
C21_FatalShownAsReconnect ==
  (FailureShown /\ FatalIndicator(thrown[1])) => ShownAsReconnect

\* C21, second half: a TRANSIENT error that used up the retry budget is
\* shown as the generic try-again failure.
C21_ExhaustedShownAsTryAgain ==
  (FailureShown /\ Transient(thrown[1]) /\ BudgetExhausted) => ShownAsTryAgain

\* C21: every FATAL error is surfaced as API_KEY_ERROR and every TRANSIENT
\* error that exhausts the retry budget as the generic try-again failure.
C21_FailuresSurfaceByClass ==
  /\ C21_FatalShownAsReconnect
  /\ C21_ExhaustedShownAsTryAgain

(* ------------------ what a request does to the ledger (C24) ------------ *)
\* The step in which the App takes the result of an analysis that succeeded
\* with usage metadata in its response.
SucceedsWithUsage ==
  /\ pc = "resolved"
  /\ pc' = "done"
  /\ returned[1].usageMetadata # <<>>

\* C24: the session ledger grows by exactly one entry in the step that takes
\* the result of an analysis that succeeded with usage metadata, and is left
\* unchanged by every other step: a failed request (fatal error or exhausted
\* retries) and a success without usage metadata add nothing.
C24_LedgerGrowsOnlyOnSuccessWithUsage ==
  [][IF SucceedsWithUsage THEN AppendsOne
     ELSE sessionHistory' = sessionHistory]_vars

C24_Witness ==
  /\ pc = "done"
  /\ appState = "RESULTS"
  /\ returned[1].usageMetadata # <<>>
  /\ Len(sessionHistory) = 1

\* A failed request and a success without usage metadata have been handled.
C24_NothingAppended ==
  /\ pc = "done"
  /\ \/ appState = "ERROR"
     \/ appState = "RESULTS" /\ returned[1].usageMetadata = <<>>
  /\ Len(sessionHistory) = 0

(* ------------------------- requests in flight (C22) -------------------- *)
Outstanding == Cardinality(requests) + Cardinality(mentorRequests)

\* C22: at most one remote request (analysis or mentor chat) is outstanding
\* in every reachable state.
C22_AtMostOneOutstanding == Outstanding <= 1

(* ------------------ appends of overlapping requests (C23) -------------- *)
\* The step in which the App takes the result of one of the analyses in
\* flight, the result carrying token usage.
TakesResultWithUsage ==
  /\ Cardinality(requests') < Cardinality(requests)
  /\ appState' = "RESULTS"
  /\ analysis'[1].tokenUsage # <<>>

LastEntry(h) == h[Len(h)]

\* C23: whatever the order in which overlapping analyses complete, each
\* result with token usage is appended (none is lost), the ids are distinct
\* and strictly increasing, and the k-th entry has id k.
C23_OverlappingAppendsKeepNumbering ==
  /\ [](\A i, j \in 1..Len(sessionHistory) :
          /\ sessionHistory[i].id = i
          /\ i < j => sessionHistory[i].id < sessionHistory[j].id)
  /\ [][TakesResultWithUsage =>
          /\ AppendsOne
          /\ LastEntry(sessionHistory').realCost =
               analysis'[1].tokenUsage[1].realCost
       ]_vars

\* The analysis issued second has been recorded while the first is pending.
C23_Witness ==
  /\ \E r \in requests : r.id = 1
  /\ issued >= 2
  /\ Len(sessionHistory) = 1
  /\ sessionHistory[1].id = 1

(* ------------------------------ C25 ------------------------------------ *)
Settled == pc \in {"returned", "thrown"}

\* C25: every call of withRetry eventually returns a value or throws,
\* provided each attempt settles and each backoff timer fires.
C25_EveryCallSettles == (pc = "pending") ~> Settled

C25_Witness ==
  /\ Settled
  /\ caller = "withRetry"
  /\ Len(waits) = maxRetries
  /\ maxRetries >= 1

(* ------------------------- late responses (C26, C27) ------------------- *)
\* C26: in state RESULTS the analysis and the current image are present and
\* the result view is rendered.
C26_ResultsHaveAnalysisAndImage ==
  appState = "RESULTS" =>
    /\ analysis # <<>>
    /\ currentImage # <<>>
    /\ rendered.economics # <<>>

\* C27: an analysis held together with a current image is the result of the
\* request issued for that image.
C27_AnalysisBelongsToCurrentImage ==
  (analysis # <<>> /\ currentImage # <<>>) =>
    analysis[1].image = currentImage[1]

(* ---------------------------- mentor chat (C28, C29) ------------------- *)
Transcript == mentorChatState.messages

Replies == {i \in 1..Len(Transcript) : Transcript[i].role = "assistant"}

\* C28: after a reset the transcript is empty and stays so until the user
\* sends a new question; a reply is only ever appended after its question.
C28_NoLateReplyInNewTranscript ==
  /\ appState = "IDLE" => Transcript = <<>>
  /\ \A i \in Replies :
       \E j \in 1..(i - 1) :
         Transcript[j] = [role |-> "user", question |-> Transcript[i].question]

\* C29: the transcript holds at most 10 messages and at most 5 replies.
C29_TranscriptIsBounded ==
  /\ Len(Transcript) <= 2 * TurnLimit
  /\ Cardinality(Replies) <= TurnLimit

\* The part of C29 that the code meets: no request is issued at the turn
\* limit or while one is loading.
C29_NoSendAtLimitOrWhileLoading ==
  [][asked' # asked =>
       /\ ~mentorChatState.isLoading
       /\ Len(Transcript) \div 2 < TurnLimit]_vars

(* ------------------------------ C30 ------------------------------------ *)
Badge == rendered.badge[1]

\* C30: the projection never reports a loss (savingsAtScale >= 0 and
\* 0 <= savingsPercent <= 100), and the percentage of the header badge equals
\* the savingsPercent of the economics tab.
C30_ProjectionNeverReportsLoss ==
  (rendered.economics # <<>> /\ rendered.badge # <<>>) =>
    /\ Projection.savingsAt1000.num >= 0
    /\ Projection.savingsPercent.num >= 0
    /\ Projection.savingsPercent.num <= 100 * Projection.savingsPercent.den
    /\ Badge.savingsPercent = Projection.savingsPercent

====
